---------------------------- MODULE Spec2Model ----------------------------
(***************************************************************************)
(* The train / evaluate core of AutoML-TPOT-Pipeline:                      *)
(*   src/src/train_pipeline.py     TPOTModelTrainer                        *)
(*   src/src/evaluate_pipeline.py  TPOTModelEvaluator                      *)
(*                                                                         *)
(* A Python str is a sequence of code points; str comparison, str.strip,   *)
(* str.endswith and the str() of an int are computed on those sequences.   *)
(***************************************************************************)
EXTENDS Integers, Sequences, FiniteSets, TLC

VARIABLES
    fs,          \* the project root: folder name -> [exists, entries]
    cfgFile,     \* config.json: "missing", "valid" or "malformed"
    trainer,     \* the TPOTModelTrainer object
    evaluator,   \* the TPOTModelEvaluator object
    y,           \* the label data the caller holds (load_data's result)
    last,        \* the most recent call and what it returned or raised
    trainBound   \* the class -> integer binding the trainer's latest successful map_labels produced

vars == <<fs, cfgFile, trainer, evaluator, y, last, trainBound>>

-----------------------------------------------------------------------------
(* Bounds of the model.                                                    *)

\* rows of a label column given to map_labels
MaxRows == 3
\* rows of a test set given to evaluate
MaxEvalRows == 4
\* rows of a label column read after the training labels were mapped
MaxTestRows == 2

-----------------------------------------------------------------------------
(* Python strings as sequences of code points.                             *)

\* str.isspace() for the code points below 256
IsSpace(c) == c \in {9, 10, 11, 12, 13, 28, 29, 30, 31, 32, 133, 160}

RECURSIVE LStrip(_)
LStrip(s) ==
    IF s = <<>> THEN <<>>
    ELSE IF IsSpace(Head(s)) THEN LStrip(Tail(s)) ELSE s

RECURSIVE RStrip(_)
RStrip(s) ==
    IF s = <<>> THEN <<>>
    ELSE IF IsSpace(s[Len(s)]) THEN RStrip(SubSeq(s, 1, Len(s) - 1)) ELSE s

\* str.strip(): leading and trailing whitespace removed
Strip(s) == RStrip(LStrip(s))

\* StrLess with the comparison of the first differing code points reversed
RECURSIVE StrLess_descending(_, _)
StrLess_descending(a, b) ==
    IF b = <<>> THEN FALSE
    ELSE IF a = <<>> THEN TRUE
    ELSE IF Head(a) # Head(b) THEN Head(a) > Head(b)
    ELSE StrLess_descending(Tail(a), Tail(b))

\* str.__lt__: code point by code point, a proper prefix is smaller
RECURSIVE StrLess(_, _)
StrLess(a, b) ==
    IF b = <<>> THEN FALSE
    ELSE IF a = <<>> THEN TRUE
    ELSE IF Head(a) # Head(b) THEN Head(a) < Head(b)
    ELSE StrLess(Tail(a), Tail(b))

\* str.endswith(suffix)
EndsWith(s, suffix) ==
    /\ Len(s) >= Len(suffix)
    /\ SubSeq(s, Len(s) - Len(suffix) + 1, Len(s)) = suffix

RECURSIVE Digits(_)
Digits(n) ==
    IF n < 10 THEN <<48 + n>> ELSE Digits(n \div 10) \o <<48 + (n % 10)>>

\* str(n) of an int
IntToStr(n) == IF n < 0 THEN <<45>> \o Digits(0 - n) ELSE Digits(n)

\* A cell of a column is a str or an int.
StrCell(s) == [kind |-> "str", s |-> s, n |-> 0]
IntCell(n) == [kind |-> "int", s |-> <<>>, n |-> n]

\* Series.astype(str), one cell
AsStr(v) == IF v.kind = "int" THEN IntToStr(v.n) ELSE v.s

-----------------------------------------------------------------------------
(* pandas operations map_labels uses.                                      *)

\* Series.unique(): the distinct values in order of first appearance
RECURSIVE Unique(_)
Unique(col) ==
    IF col = <<>> THEN <<>>
    ELSE LET front == Unique(SubSeq(col, 1, Len(col) - 1))
             x == col[Len(col)]
         IN IF \E i \in 1..Len(front) : front[i] = x THEN front ELSE Append(front, x)

RECURSIVE Insert(_, _)
Insert(x, sorted) ==
    IF sorted = <<>> THEN <<x>>
    ELSE IF StrLess(x, Head(sorted)) THEN <<x>> \o sorted
    ELSE <<Head(sorted)>> \o Insert(x, Tail(sorted))

\* Sorted without the sort: the values in order of first appearance
Sorted_unsorted(xs) == xs

\* sorted() of a list of str
RECURSIVE Sorted(_)
Sorted(xs) == IF xs = <<>> THEN <<>> ELSE Insert(Head(xs), Sorted(Tail(xs)))

\* y.iloc[:, 0] of a DataFrame; a Series is taken as it is
FirstColumn(data) == data.cols[1]

\* y.astype(str).str.strip()
StrippedColumn(col) == [i \in 1..Len(col) |-> Strip(AsStr(col[i]))]

\* the missing value Series.map leaves for a key the dict lacks
NaN == [isnull |-> TRUE, v |-> 0]
Mapped(v) == [isnull |-> FALSE, v |-> v]

\* y.map(mapping) with mapping = {unique[0]: 0, unique[1]: 1}
MapColumn(ys, unique) ==
    [i \in 1..Len(ys) |->
        IF ys[i] = unique[1] THEN Mapped(0)
        ELSE IF ys[i] = unique[2] THEN Mapped(1)
        ELSE NaN]

MapResult(status, kind, tag, classes, value) ==
    [status |-> status, kind |-> kind, tag |-> tag,
     n |-> Len(classes), classes |-> classes, value |-> value]

NoMap == MapResult("none", "", "", <<>>, <<>>)

\* Trainer_map_labels with the class check `len(unique) > 2`
Trainer_map_labels_lax(data) ==
    LET ys == StrippedColumn(FirstColumn(data))
        unique == Sorted(Unique(ys))
    IN IF Len(unique) > 2
       THEN MapResult("ValueError", "cardinality", "[Training]", unique, <<>>)
       ELSE MapResult("ok", "", "", unique,
                      [i \in 1..Len(ys) |-> IF ys[i] = unique[1] THEN 0 ELSE 1])

\* TPOTModelTrainer.map_labels
Trainer_map_labels(data) ==
    LET ys == StrippedColumn(FirstColumn(data))
        unique == Sorted(Unique(ys))
    IN IF Len(unique) # 2
       THEN MapResult("ValueError", "cardinality", "[Training]", unique, <<>>)
       ELSE LET y_mapped == MapColumn(ys, unique)
            IN IF \E i \in 1..Len(y_mapped) : y_mapped[i].isnull
               THEN MapResult("ValueError", "mapping", "[Training]", unique, <<>>)
               ELSE MapResult("ok", "", "", unique,
                              [i \in 1..Len(y_mapped) |-> y_mapped[i].v])

\* Evaluator_map_labels drifted from the trainer's: mapping = {unique[0]: 1, unique[1]: 0}
Evaluator_map_labels_drifted(data) ==
    LET ys == StrippedColumn(FirstColumn(data))
        unique == Sorted(Unique(ys))
    IN IF Len(unique) # 2
       THEN MapResult("ValueError", "cardinality", "[Evaluation]", unique, <<>>)
       ELSE MapResult("ok", "", "", unique,
                      [i \in 1..Len(ys) |-> IF ys[i] = unique[1] THEN 1 ELSE 0])

\* TPOTModelEvaluator.map_labels
Evaluator_map_labels(data) ==
    LET ys == StrippedColumn(FirstColumn(data))
        unique == Sorted(Unique(ys))
    IN IF Len(unique) # 2
       THEN MapResult("ValueError", "cardinality", "[Evaluation]", unique, <<>>)
       ELSE LET y_mapped == MapColumn(ys, unique)
            IN IF \E i \in 1..Len(y_mapped) : y_mapped[i].isnull
               THEN MapResult("ValueError", "mapping", "[Evaluation]", unique, <<>>)
               ELSE MapResult("ok", "", "", unique,
                              [i \in 1..Len(y_mapped) |-> y_mapped[i].v])

-----------------------------------------------------------------------------
(* sklearn.metrics on 0/1 vectors. A score is the exact fraction num/den;  *)
(* the report holds score * 100.                                           *)

Count(S) == Cardinality(S)
Rows(v) == 1..Len(v)

Frac(num, den) == [num |-> num, den |-> den]
\* zero_division: a score whose denominator is 0 is reported as 0.0
SafeFrac(num, den) == IF den = 0 THEN Frac(0, 1) ELSE Frac(num, den)
Times100(f) == Frac(100 * f.num, f.den)

\* accuracy_score(y_true, y_pred)
accuracy_score(y_true, y_pred) ==
    Frac(Count({i \in Rows(y_true) : y_true[i] = y_pred[i]}), Len(y_true))

\* recall_score(y_true, y_pred, pos_label)
recall_score(y_true, y_pred, pos_label) ==
    SafeFrac(Count({i \in Rows(y_true) : y_true[i] = pos_label /\ y_pred[i] = pos_label}),
             Count({i \in Rows(y_true) : y_true[i] = pos_label}))

\* precision_score(y_true, y_pred), pos_label = 1
precision_score(y_true, y_pred) ==
    SafeFrac(Count({i \in Rows(y_true) : y_true[i] = 1 /\ y_pred[i] = 1}),
             Count({i \in Rows(y_true) : y_pred[i] = 1}))

\* f1_score(y_true, y_pred) = 2 tp / (2 tp + fp + fn)
f1_score(y_true, y_pred) ==
    LET tp == Count({i \in Rows(y_true) : y_true[i] = 1 /\ y_pred[i] = 1})
        fp == Count({i \in Rows(y_true) : y_true[i] = 0 /\ y_pred[i] = 1})
        fn == Count({i \in Rows(y_true) : y_true[i] = 1 /\ y_pred[i] = 0})
    IN SafeFrac(2 * tp, 2 * tp + fp + fn)

\* roc_auc_score(y_true, y_pred) on hard 0/1 predictions: (TPR + TNR) / 2
roc_auc_score(y_true, y_pred) ==
    LET tp == Count({i \in Rows(y_true) : y_true[i] = 1 /\ y_pred[i] = 1})
        tn == Count({i \in Rows(y_true) : y_true[i] = 0 /\ y_pred[i] = 0})
        pos == Count({i \in Rows(y_true) : y_true[i] = 1})
        neg == Count({i \in Rows(y_true) : y_true[i] = 0})
    IN Frac(tp * neg + tn * pos, 2 * pos * neg)

NoMetrics ==
    [Accuracy |-> Frac(0, 1), Precision |-> Frac(0, 1), Sensitivity |-> Frac(0, 1),
     Specificity |-> Frac(0, 1), AUC |-> Frac(0, 1), F1 |-> Frac(0, 1)]

\* Metrics with the pos_label arguments of the two recall_score calls exchanged
Metrics_swapped(y_test_mapped, y_pred) ==
    [Accuracy    |-> Times100(accuracy_score(y_test_mapped, y_pred)),
     Precision   |-> Times100(precision_score(y_test_mapped, y_pred)),
     Sensitivity |-> Times100(recall_score(y_test_mapped, y_pred, 0)),
     Specificity |-> Times100(recall_score(y_test_mapped, y_pred, 1)),
     AUC         |-> Times100(roc_auc_score(y_test_mapped, y_pred)),
     F1          |-> Times100(f1_score(y_test_mapped, y_pred))]

\* the metrics dict of TPOTModelEvaluator.evaluate
Metrics(y_test_mapped, y_pred) ==
    [Accuracy    |-> Times100(accuracy_score(y_test_mapped, y_pred)),
     Precision   |-> Times100(precision_score(y_test_mapped, y_pred)),
     Sensitivity |-> Times100(recall_score(y_test_mapped, y_pred, 1)),
     Specificity |-> Times100(recall_score(y_test_mapped, y_pred, 0)),
     AUC         |-> Times100(roc_auc_score(y_test_mapped, y_pred)),
     F1          |-> Times100(f1_score(y_test_mapped, y_pred))]

-----------------------------------------------------------------------------
(* The filesystem under the project root, joblib and the search capability. *)

\* ".joblib"
DotJoblib == <<46, 106, 111, 98, 108, 105, 98>>
\* "tpot_best_pipeline.joblib", the default filename
DefaultFilename ==
    <<116, 112, 111, 116, 95, 98, 101, 115, 116, 95,
      112, 105, 112, 101, 108, 105, 110, 101>> \o DotJoblib
\* "model.pkl"
ModelPkl == <<109, 111, 100, 101, 108, 46, 112, 107, 108>>
\* "old.joblib"
OldJoblib == <<111, 108, 100>> \o DotJoblib
\* "notes.txt"
NotesTxt == <<110, 111, 116, 101, 115, 46, 116, 120, 116>>

Folders == {"models", "out"}

\* What a file holds, and what a Python reference holds.
PyNone == [kind |-> "None", fit_on |-> <<>>]
\* the pipeline a completed fit returns: random_state is fixed, so it is a
\* function of the training data
FittedPipeline(y_mapped) == [kind |-> "pipeline", fit_on |-> y_mapped]
\* a pipeline some earlier run left behind
OldPipeline == [kind |-> "pipeline", fit_on |-> <<>>]
Text == [kind |-> "text", fit_on |-> <<>>]

Entry(name, blob) == [name |-> name, blob |-> blob]
NoDir == [exists |-> FALSE, entries |-> <<>>]
Dir(entries) == [exists |-> TRUE, entries |-> entries]

HasEntry(dir, name) == \E i \in 1..Len(dir.entries) : dir.entries[i].name = name

\* the listings a dump of `obj` to `name` can leave in an existing directory:
\* an existing file is overwritten in place, a new one appears anywhere in
\* the directory's native order
DumpInto(dir, name, obj) ==
    IF HasEntry(dir, name)
    THEN {Dir([i \in 1..Len(dir.entries) |->
                  IF dir.entries[i].name = name THEN Entry(name, obj)
                  ELSE dir.entries[i]])}
    ELSE {Dir(SubSeq(dir.entries, 1, k) \o <<Entry(name, obj)>>
              \o SubSeq(dir.entries, k + 1, Len(dir.entries))) :
          k \in 0..Len(dir.entries)}

\* os.makedirs(path, exist_ok=True)
makedirs(dir) == IF dir.exists THEN dir ELSE Dir(<<>>)

-----------------------------------------------------------------------------
(* The objects.                                                            *)

\* self.tpot: None, or a TPOTClassifier with or without fitted_pipeline_
TpotNone == [isNone |-> TRUE, hasattr |-> FALSE, fitted_pipeline_ |-> PyNone]
\* TPOTClassifier(config_dict=self.config, ...): constructed, not fitted
TPOTClassifier == [isNone |-> FALSE, hasattr |-> FALSE, fitted_pipeline_ |-> PyNone]

\* TPOTModelTrainer.__init__
NewTrainer(output_folder, filename) ==
    [output_folder |-> output_folder, filename |-> filename,
     config |-> "{}", tpot |-> TpotNone]

\* TPOTModelEvaluator.__init__
NewEvaluator(model_dir) == [model_dir |-> model_dir, pipeline |-> PyNone]

Call(op, status, why, trace, map, pred, metrics) ==
    [op |-> op, status |-> status, why |-> why, trace |-> trace,
     map |-> map, pred |-> pred, metrics |-> metrics]

Plain(op, status, why, trace) == Call(op, status, why, trace, NoMap, <<>>, NoMetrics)

NoBinding == [bound |-> FALSE, zero |-> {}, one |-> {}]
\* the binding a returned sequence shows: the trimmed source values of the
\* rows it holds 0 for, and of the rows it holds 1 for
Binding(data, value) ==
    LET ys == StrippedColumn(FirstColumn(data))
    IN [bound |-> TRUE,
        zero |-> {ys[i] : i \in {j \in 1..Len(value) : value[j] = 0}},
        one  |-> {ys[i] : i \in {j \in 1..Len(value) : value[j] = 1}}]

-----------------------------------------------------------------------------
(* TPOTModelTrainer.                                                       *)

\* Trainer_load_config that falls back to the empty configuration when the
\* file is missing
Trainer_load_config_defaulting(t, cfg) ==
    IF cfg = "missing"
    THEN [t |-> [t EXCEPT !.config = "{}"], status |-> "ok", why |-> ""]
    ELSE IF cfg = "malformed"
    THEN [t |-> t, status |-> "JSONDecodeError", why |-> "config parse"]
    ELSE [t |-> [t EXCEPT !.config = "search space"], status |-> "ok", why |-> ""]

\* load_config: the trainer after the call, and how the call ended
Trainer_load_config(t, cfg) ==
    IF cfg = "missing"
    THEN [t |-> t, status |-> "FileNotFoundError", why |-> "config not found"]
    ELSE IF cfg = "malformed"
    THEN [t |-> t, status |-> "JSONDecodeError", why |-> "config parse"]
    ELSE [t |-> [t EXCEPT !.config = "search space"], status |-> "ok", why |-> ""]

FitOutcomes == {"fitted", "raised before initialisation", "raised after initialisation"}

\* self.tpot.fit(X, y_mapped): the search either completes and sets
\* fitted_pipeline_, or raises; a fit that raises after TPOT's own fit
\* initialisation leaves fitted_pipeline_ = None on the object
fit(tpot, y_mapped, outcome) ==
    IF outcome = "fitted"
    THEN [tpot EXCEPT !.hasattr = TRUE, !.fitted_pipeline_ = FittedPipeline(y_mapped)]
    ELSE IF outcome = "raised after initialisation"
    THEN [tpot EXCEPT !.hasattr = TRUE, !.fitted_pipeline_ = PyNone]
    ELSE tpot

\* train(X, y)
Trainer_train(t, cfg, data, outcome) ==
    LET c == Trainer_load_config(t, cfg)
        m == Trainer_map_labels(data)
    IN IF c.status # "ok"
       THEN [t |-> c.t, status |-> c.status, why |-> c.why,
             trace |-> <<"load_config">>, map |-> NoMap]
       ELSE IF m.status # "ok"
       THEN [t |-> c.t, status |-> m.status, why |-> m.kind,
             trace |-> <<"load_config", "map_labels">>, map |-> m]
       ELSE [t |-> [c.t EXCEPT !.tpot = fit(TPOTClassifier, m.value, outcome)],
             status |-> IF outcome = "fitted" THEN "ok" ELSE "FitError",
             why |-> IF outcome = "fitted" THEN "" ELSE outcome,
             trace |-> <<"load_config", "map_labels", "TPOTClassifier", "fit">>,
             map |-> m]

\* Trainer_save_pipeline that dumps self.tpot instead of self.tpot.fitted_pipeline_
Trainer_save_pipeline_dumps_tpot(t, dir) ==
    IF t.tpot.isNone \/ ~t.tpot.hasattr
    THEN {[dir |-> dir, status |-> "RuntimeError", why |-> "not fitted", trace |-> <<>>]}
    ELSE {[dir |-> d, status |-> "ok", why |-> "", trace |-> <<"makedirs", "dump">>] :
          d \in DumpInto(makedirs(dir), t.filename,
                         [kind |-> "TPOTClassifier",
                          fit_on |-> t.tpot.fitted_pipeline_.fit_on])}

\* save_pipeline: the outcomes the call can have on the output directory
Trainer_save_pipeline(t, dir) ==
    IF t.tpot.isNone \/ ~t.tpot.hasattr
    THEN {[dir |-> dir, status |-> "RuntimeError", why |-> "not fitted", trace |-> <<>>]}
    ELSE {[dir |-> d, status |-> "ok", why |-> "", trace |-> <<"makedirs", "dump">>] :
          d \in DumpInto(makedirs(dir), t.filename, t.tpot.fitted_pipeline_)}

-----------------------------------------------------------------------------
(* TPOTModelEvaluator.                                                     *)

\* FirstJoblib without the loop's return: the last accepted entry wins
FirstJoblib_last(entries) ==
    LET hits == {i \in 1..Len(entries) : EndsWith(entries[i].name, DotJoblib)}
    IN IF hits = {} THEN 0 ELSE CHOOSE i \in hits : \A j \in hits : i >= j

\* the index of the first entry of the listing load_pipeline's loop accepts, 0 if none
FirstJoblib(entries) ==
    LET hits == {i \in 1..Len(entries) : EndsWith(entries[i].name, DotJoblib)}
    IN IF hits = {} THEN 0 ELSE CHOOSE i \in hits : \A j \in hits : i <= j

\* load_pipeline
Evaluator_load_pipeline(e, dir) ==
    IF ~dir.exists
    THEN [e |-> e, status |-> "FileNotFoundError", why |-> "no directory", loaded |-> 0]
    ELSE LET k == FirstJoblib(dir.entries)
         IN IF k = 0
            THEN [e |-> e, status |-> "FileNotFoundError", why |-> "no artifact", loaded |-> 0]
            ELSE [e |-> [e EXCEPT !.pipeline = dir.entries[k].blob],
                  status |-> "ok", why |-> "", loaded |-> k]

\* what self.pipeline.predict(X_test) can return: one 0/1 label per row
Predictions(data) == [1..Len(FirstColumn(data)) -> {0, 1}]

\* Evaluator_evaluate without the `self.pipeline is None` check
Evaluator_evaluate_unguarded(e, data, y_pred) ==
    LET m == Evaluator_map_labels(data)
    IN IF m.status # "ok"
       THEN [status |-> m.status, why |-> m.kind, trace |-> <<"map_labels">>,
             map |-> m, pred |-> <<>>, metrics |-> NoMetrics]
       ELSE [status |-> "ok", why |-> "", trace |-> <<"map_labels", "predict", "metrics">>,
             map |-> m, pred |-> y_pred, metrics |-> Metrics(m.value, y_pred)]

\* evaluate(X_test, y_test), y_pred being what predict returns
Evaluator_evaluate(e, data, y_pred) ==
    LET m == Evaluator_map_labels(data)
    IN IF e.pipeline = PyNone
       THEN [status |-> "ValueError", why |-> "not loaded", trace |-> <<>>,
             map |-> NoMap, pred |-> <<>>, metrics |-> NoMetrics]
       ELSE IF m.status # "ok"
       THEN [status |-> m.status, why |-> m.kind, trace |-> <<"map_labels">>,
             map |-> m, pred |-> <<>>, metrics |-> NoMetrics]
       ELSE [status |-> "ok", why |-> "", trace |-> <<"map_labels", "predict", "metrics">>,
             map |-> m, pred |-> y_pred, metrics |-> Metrics(m.value, y_pred)]

-----------------------------------------------------------------------------
(* Inputs.                                                                 *)

\* "A", " A ", "a", " ", 10, "Çerçevelik", "Ürgüp Sivrisi"
Cercevelik == <<199, 101, 114, 231, 101, 118, 101, 108, 105, 107>>
UrgupSivrisi == <<220, 114, 103, 252, 112, 32, 83, 105, 118, 114, 105, 115, 105>>
LabelCells ==
    {StrCell(<<65>>), StrCell(<<32, 65, 32>>), StrCell(<<97>>), StrCell(<<32>>),
     IntCell(10), StrCell(Cercevelik), StrCell(UrgupSivrisi)}

\* "A", "A " and " b"
EvalCells == {StrCell(<<65>>), StrCell(<<65, 32>>), StrCell(<<32, 98>>)}

Columns(cells, maxRows) == UNION {[1..k -> cells] : k \in 0..maxRows}

Series(col) == [isFrame |-> FALSE, cols |-> <<col>>]
\* a DataFrame whose first column is the labels, with a second column beside it
DataFrame(col) == [isFrame |-> TRUE, cols |-> <<col, [i \in 1..Len(col) |-> IntCell(7)]>>]

LabelInputs ==
    {Series(c) : c \in Columns(LabelCells, MaxRows)}
    \cup {DataFrame(c) : c \in Columns(LabelCells, MaxRows)}

TestInputs == {Series(c) : c \in Columns(LabelCells, MaxTestRows)}

EvalInputs ==
    {Series(c) : c \in Columns(EvalCells, MaxEvalRows)}
    \cup {DataFrame(c) : c \in Columns(EvalCells, MaxEvalRows)}

\* the label data of the orchestration runs: two binary columns over one
\* vocabulary, and a column with a single class
RunInputs ==
    {DataFrame(<<StrCell(<<65, 32>>), StrCell(<<32, 98>>)>>),
     DataFrame(<<StrCell(<<32, 98>>), StrCell(<<65>>)>>),
     DataFrame(<<StrCell(<<65>>), StrCell(<<65, 32>>)>>)}

-----------------------------------------------------------------------------
(* The state after construction.                                           *)

\* what the models folder holds before any run
Listings ==
    {NoDir, Dir(<<>>),
     Dir(<<Entry(OldJoblib, OldPipeline)>>),
     Dir(<<Entry(NotesTxt, Text)>>),
     Dir(<<Entry(NotesTxt, Text), Entry(OldJoblib, OldPipeline)>>)}

Filenames == {DefaultFilename, ModelPkl}
ConfigStates == {"missing", "valid", "malformed"}

Constructed(listings, configs, folders, filenames, dirs, inputs) ==
    /\ fs \in {[f \in Folders |-> IF f = "models" THEN d ELSE NoDir] : d \in listings}
    /\ cfgFile \in configs
    /\ trainer \in {NewTrainer(f, n) : f \in folders, n \in filenames}
    /\ evaluator \in {NewEvaluator(d) : d \in dirs}
    /\ y \in inputs
    /\ last = Plain("__init__", "ok", "", <<>>)
    /\ trainBound = NoBinding

Init == Constructed(Listings, {"missing", "valid"}, Folders, Filenames, Folders, RunInputs)

InitLabels ==
    Constructed({NoDir}, {"valid"}, {"models"}, {DefaultFilename}, {"models"}, LabelInputs)

InitEval ==
    Constructed({Dir(<<Entry(OldJoblib, OldPipeline)>>)}, {"valid"}, {"models"},
                {DefaultFilename}, {"models"}, EvalInputs)

-----------------------------------------------------------------------------
(* The calls.                                                              *)

\* the caller reads label data: y = load_data(...)
LoadData(inputs) ==
    /\ \E d \in inputs : y' = d
    /\ last' = Plain("load_data", "ok", "", <<>>)
    /\ UNCHANGED <<fs, cfgFile, trainer, evaluator, trainBound>>

\* config.json is written, damaged or removed between runs
WriteConfig ==
    /\ \E c \in ConfigStates \ {cfgFile} : cfgFile' = c
    /\ last' = Plain("write_config", "ok", "", <<>>)
    /\ UNCHANGED <<fs, trainer, evaluator, y, trainBound>>

\* trainer.map_labels(y)
TrainerMapLabels ==
    LET m == Trainer_map_labels(y)
    IN /\ last' = Call("Trainer.map_labels", m.status, m.kind, <<>>, m, <<>>, NoMetrics)
       /\ trainBound' = IF m.status = "ok" THEN Binding(y, m.value) ELSE trainBound
       /\ UNCHANGED <<fs, cfgFile, trainer, evaluator, y>>

\* evaluator.map_labels(y)
EvaluatorMapLabels ==
    LET m == Evaluator_map_labels(y)
    IN /\ last' = Call("Evaluator.map_labels", m.status, m.kind, <<>>, m, <<>>, NoMetrics)
       /\ UNCHANGED <<fs, cfgFile, trainer, evaluator, y, trainBound>>

\* trainer.load_config()
LoadConfig ==
    LET r == Trainer_load_config(trainer, cfgFile)
    IN /\ trainer' = r.t
       /\ last' = Plain("load_config", r.status, r.why, <<>>)
       /\ UNCHANGED <<fs, cfgFile, evaluator, y, trainBound>>

\* trainer.train(X, y)
Train ==
    \E outcome \in FitOutcomes :
        LET r == Trainer_train(trainer, cfgFile, y, outcome)
        IN /\ trainer' = r.t
           /\ last' = Call("train", r.status, r.why, r.trace, r.map, <<>>, NoMetrics)
           /\ trainBound' = IF r.map.status = "ok" THEN Binding(y, r.map.value)
                            ELSE trainBound
           /\ UNCHANGED <<fs, cfgFile, evaluator, y>>

\* trainer.save_pipeline()
SavePipeline ==
    \E r \in Trainer_save_pipeline(trainer, fs[trainer.output_folder]) :
        /\ fs' = [fs EXCEPT ![trainer.output_folder] = r.dir]
        /\ last' = Plain("save_pipeline", r.status, r.why, r.trace)
        /\ UNCHANGED <<cfgFile, trainer, evaluator, y, trainBound>>

\* evaluator.load_pipeline()
LoadPipeline ==
    LET r == Evaluator_load_pipeline(evaluator, fs[evaluator.model_dir])
    IN /\ evaluator' = r.e
       /\ last' = Plain("load_pipeline", r.status, r.why, <<>>)
       /\ UNCHANGED <<fs, cfgFile, trainer, y, trainBound>>

\* evaluator.evaluate(X_test, y)
Evaluate ==
    \E y_pred \in Predictions(y) :
        LET r == Evaluator_evaluate(evaluator, y, y_pred)
        IN /\ last' = Call("evaluate", r.status, r.why, r.trace, r.map, r.pred, r.metrics)
           /\ UNCHANGED <<fs, cfgFile, trainer, evaluator, y, trainBound>>

Next ==
    \/ LoadData(RunInputs)
    \/ WriteConfig
    \/ LoadConfig
    \/ Train
    \/ SavePipeline
    \/ LoadPipeline
    \/ Evaluate

\* the train and evaluate runs over the project root
Spec == Init /\ [][Next]_vars

NextLabels ==
    \/ LoadData(TestInputs)
    \/ TrainerMapLabels
    \/ EvaluatorMapLabels

\* map_labels of both objects over the bounded label columns
SpecLabels == InitLabels /\ [][NextLabels]_vars

NextEval ==
    \/ LoadPipeline
    \/ Evaluate

\* evaluation of a persisted pipeline over the bounded test sets
SpecEval == InitEval /\ [][NextEval]_vars

-----------------------------------------------------------------------------
(* Properties of map_labels, under SpecLabels.                             *)

MapOps == {"Trainer.map_labels", "Evaluator.map_labels"}

\* the trimmed string values of the label column of `data`, row by row
Trimmed(data) ==
    LET col == FirstColumn(data)
    IN [i \in 1..Len(col) |-> Strip(AsStr(col[i]))]

\* the distinct trimmed string values of the label column of `data`
Classes(data) == {Trimmed(data)[i] : i \in 1..Len(Trimmed(data))}

\* C1: when the trimmed values of the label column are exactly two strings
\* a < b, map_labels of either object returns a sequence with one entry per
\* row, 0 in every row holding a and 1 in every row holding b.
C1_SmallerClassIsZero ==
    (last.op \in MapOps /\ Cardinality(Classes(y)) = 2) =>
        /\ last.status = "ok"
        /\ Len(last.map.value) = Len(FirstColumn(y))
        /\ \A a \in Classes(y) : \A b \in Classes(y) :
              StrLess(a, b) =>
                  \A i \in 1..Len(FirstColumn(y)) :
                      /\ Trimmed(y)[i] = a => last.map.value[i] = 0
                      /\ Trimmed(y)[i] = b => last.map.value[i] = 1

\* C1 witness: a column whose first row holds the larger class and whose
\* other two rows hold the smaller one, once padded and once not.
C1_Witness ==
    /\ last.op = "Trainer.map_labels"
    /\ Cardinality(Classes(y)) = 2
    /\ Len(FirstColumn(y)) = 3
    /\ FirstColumn(y)[2] # FirstColumn(y)[3]
    /\ last.map.value = <<1, 0, 0>>

\* C2: when the number of distinct trimmed values is not 2, map_labels of
\* either object raises the class-count ValueError that names the values and
\* how many they are, returns no sequence, and changes neither the label data
\* nor either object nor the files.
C2_WrongClassCountRaises ==
    [][(last'.op \in MapOps /\ Cardinality(Classes(y)) # 2) =>
          /\ last'.status = "ValueError"
          /\ last'.why = "cardinality"
          /\ last'.map.n = Cardinality(Classes(y))
          /\ {last'.map.classes[i] : i \in 1..Len(last'.map.classes)} = Classes(y)
          /\ last'.map.value = <<>>
          /\ y' = y
          /\ trainer' = trainer
          /\ evaluator' = evaluator
          /\ fs' = fs]_vars

\* C2 witness: the trainer's map_labels has raised on a three-class column.
C2_Witness ==
    /\ last.op = "Trainer.map_labels"
    /\ last.status = "ValueError"
    /\ Cardinality(Classes(y)) = 3

\* both calls raised, or both returned the same sequence
SameOutcome(m1, m2) == m1.status = m2.status /\ m1.value = m2.value

\* C3: on every label column the trainer's and the evaluator's map_labels
\* both raise or both return the same sequence; and when the evaluator maps a
\* column whose distinct trimmed values are those the trainer last mapped,
\* every class gets the integer it got from the trainer.
C3_TrainerAndEvaluatorAgree ==
    /\ last.op = "Trainer.map_labels" => SameOutcome(last.map, Evaluator_map_labels(y))
    /\ last.op = "Evaluator.map_labels" => SameOutcome(last.map, Trainer_map_labels(y))
    /\ (/\ last.op = "Evaluator.map_labels"
        /\ last.status = "ok"
        /\ trainBound.bound
        /\ Classes(y) = trainBound.zero \cup trainBound.one)
       => Binding(y, last.map.value) = trainBound

\* C3 witness: the evaluator has mapped a two-row column that lists the two
\* classes the trainer bound in the opposite order of their integers.
C3_Witness ==
    /\ last.op = "Evaluator.map_labels"
    /\ last.status = "ok"
    /\ trainBound.bound
    /\ Classes(y) = trainBound.zero \cup trainBound.one
    /\ last.map.value = <<1, 0>>

CerceveliColumn == <<StrCell(Cercevelik), StrCell(Cercevelik), StrCell(UrgupSivrisi)>>

\* C9 as stated: map_labels of ["Çerçevelik", "Çerçevelik", "Ürgüp Sivrisi"]
\* returns [1, 1, 0].
C9_AsStated ==
    (last.op \in MapOps /\ FirstColumn(y) = CerceveliColumn) =>
        last.map.value = <<1, 1, 0>>

\* C9 amended: map_labels of ["Çerçevelik", "Çerçevelik", "Ürgüp Sivrisi"]
\* returns [0, 0, 1]: by code point "Çerçevelik" (U+00C7) is the smaller
\* string and "Ürgüp Sivrisi" (U+00DC) the larger.
C9_CercevelikIsZero ==
    (last.op \in MapOps /\ FirstColumn(y) = CerceveliColumn) =>
        /\ last.status = "ok"
        /\ last.map.value = <<0, 0, 1>>

\* C9 witness: the evaluator has mapped that column.
C9_Witness ==
    /\ last.op = "Evaluator.map_labels"
    /\ FirstColumn(y) = CerceveliColumn
    /\ last.status = "ok"

-----------------------------------------------------------------------------
(* Properties of the metric report, under SpecEval.                        *)

\* the 0/1 labels of a two-class column: 0 for the smaller trimmed string
NormalizedLabels(data) ==
    LET lo == CHOOSE a \in Classes(data) : \A b \in Classes(data) \ {a} : StrLess(a, b)
    IN [i \in 1..Len(Trimmed(data)) |-> IF Trimmed(data)[i] = lo THEN 0 ELSE 1]

\* the reported value f is 100 * num / den
IsPercentOf(f, num, den) == f.den > 0 /\ den > 0 /\ f.num * den = 100 * num * f.den
\* the reported value f lies in [0, 100]
InPercentRange(f) == f.den > 0 /\ 0 <= f.num /\ f.num <= 100 * f.den
\* the reported value f is the number v
IsValue(f, v) == f.den > 0 /\ f.num = v * f.den

\* C8: with a pipeline loaded, evaluate of a two-class test column and a 0/1
\* prediction vector of its length reports Accuracy = 100 * (rows where the
\* prediction equals the normalized label) / n, Sensitivity = 100 * recall of
\* class 1 and Specificity = 100 * recall of class 0, each in [0, 100]; all-1
\* predictions against the labels [0, 1, 0, 1] give 50, 100 and 0.
C8_ReportedPercentages ==
    (last.op = "evaluate" /\ evaluator.pipeline # PyNone /\ Cardinality(Classes(y)) = 2) =>
        LET t == NormalizedLabels(y)
            p == last.pred
            rows == 1..Len(t)
            m == last.metrics
        IN /\ last.status = "ok"
           /\ Len(p) = Len(t)
           /\ IsPercentOf(m.Accuracy, Cardinality({i \in rows : p[i] = t[i]}), Len(t))
           /\ IsPercentOf(m.Sensitivity,
                          Cardinality({i \in rows : t[i] = 1 /\ p[i] = 1}),
                          Cardinality({i \in rows : t[i] = 1}))
           /\ IsPercentOf(m.Specificity,
                          Cardinality({i \in rows : t[i] = 0 /\ p[i] = 0}),
                          Cardinality({i \in rows : t[i] = 0}))
           /\ InPercentRange(m.Accuracy)
           /\ InPercentRange(m.Sensitivity)
           /\ InPercentRange(m.Specificity)
           /\ (t = <<0, 1, 0, 1>> /\ p = <<1, 1, 1, 1>>) =>
                  /\ IsValue(m.Accuracy, 50)
                  /\ IsValue(m.Sensitivity, 100)
                  /\ IsValue(m.Specificity, 0)

\* C8 witness: evaluate has reported on all-1 predictions against a column
\* whose normalized labels are [0, 1, 0, 1].
C8_Witness ==
    /\ last.op = "evaluate"
    /\ last.status = "ok"
    /\ Cardinality(Classes(y)) = 2
    /\ NormalizedLabels(y) = <<0, 1, 0, 1>>
    /\ last.pred = <<1, 1, 1, 1>>

-----------------------------------------------------------------------------
(* Properties of the train and evaluate runs, under Spec.                  *)

\* state Fitted of the trainer: a FittedPipeline of a completed fit exists
Fitted(t) == ~t.tpot.isNone /\ t.tpot.hasattr /\ t.tpot.fitted_pipeline_.kind = "pipeline"

InTrace(step, trace) == \E i \in 1..Len(trace) : trace[i] = step

\* C4: save_pipeline writes the artifact only when the trainer is Fitted; in
\* every other state it raises the not-fitted RuntimeError and the files stay
\* as they were.
C4_SaveOnlyWhenFitted ==
    [][last'.op = "save_pipeline" =>
          /\ last'.status = "ok" => Fitted(trainer)
          /\ ~Fitted(trainer) =>
                /\ last'.status = "RuntimeError"
                /\ last'.why = "not fitted"
                /\ fs' = fs]_vars

\* C5: evaluate predicts and returns a report only with a pipeline loaded;
\* with none it raises the not-loaded ValueError before map_labels and
\* predict; and only a load_pipeline that returned puts a pipeline in place.
C5_EvaluateNeedsLoadedPipeline ==
    [][/\ last'.op = "evaluate" =>
             /\ (last'.status = "ok" \/ InTrace("predict", last'.trace))
                    => evaluator.pipeline # PyNone
             /\ evaluator.pipeline = PyNone =>
                    /\ last'.status = "ValueError"
                    /\ last'.why = "not loaded"
                    /\ last'.trace = <<>>
       /\ evaluator'.pipeline # evaluator.pipeline =>
             /\ last'.op = "load_pipeline"
             /\ last'.status = "ok"]_vars

\* C5 witness: after a load_pipeline that found no artifact, evaluate has
\* raised not-loaded.
C5_Witness ==
    /\ last.op = "evaluate"
    /\ last.why = "not loaded"
    /\ fs[evaluator.model_dir].exists
    /\ FirstJoblib(fs[evaluator.model_dir].entries) = 0

\* C6: train() with config.json missing raises the config-not-found error
\* having called nothing but load_config; config, tpot and the files are as
\* before.
C6_MissingConfigStopsTrain ==
    [][(last'.op = "train" /\ cfgFile = "missing") =>
          /\ last'.status = "FileNotFoundError"
          /\ last'.why = "config not found"
          /\ last'.trace = <<"load_config">>
          /\ trainer' = trainer
          /\ fs' = fs]_vars

\* C6 witness: train() has raised config-not-found on a trainer that holds
\* the configuration and the pipeline of an earlier run.
C6_Witness ==
    /\ last.op = "train"
    /\ last.why = "config not found"
    /\ cfgFile = "missing"
    /\ trainer.config = "search space"
    /\ Fitted(trainer)

\* the names of the model that carry the artifact extension
ArtifactNames == {DefaultFilename, OldJoblib}
ArtifactEntries(entries) == {i \in 1..Len(entries) : entries[i].name \in ArtifactNames}

\* C7: load_pipeline sets the pipeline to the first entry, in directory
\* order, whose name ends with .joblib; it raises FileNotFoundError exactly
\* when no entry has that extension, and then leaves the evaluator as it was.
C7_LoadsFirstArtifact ==
    [][last'.op = "load_pipeline" =>
          LET entries == fs[evaluator.model_dir].entries
              hits == ArtifactEntries(entries)
          IN /\ hits # {} =>
                   /\ last'.status = "ok"
                   /\ \E k \in hits :
                         /\ \A j \in hits : k <= j
                         /\ evaluator'.pipeline = entries[k].blob
             /\ last'.status = "FileNotFoundError" <=> hits = {}
             /\ (hits = {} /\ fs[evaluator.model_dir].exists) => last'.why = "no artifact"
             /\ hits = {} => evaluator' = evaluator
             /\ fs' = fs]_vars

\* C7 witness: load_pipeline has returned on a directory that lists two
\* artifacts holding different pipelines, after an entry that is none.
C7_Witness ==
    /\ last.op = "load_pipeline"
    /\ last.status = "ok"
    /\ LET entries == fs[evaluator.model_dir].entries
       IN /\ Cardinality(ArtifactEntries(entries)) = 2
          /\ 1 \notin ArtifactEntries(entries)
          /\ \E i \in ArtifactEntries(entries) : entries[i].blob # evaluator.pipeline

\* the entries of the trainer's output folder that are its artifact
TrainerArtifact(entries) ==
    {i \in 1..Len(entries) : entries[i].name = trainer.filename
                             /\ entries[i].blob.kind = "pipeline"}

\* C10 as stated: whatever the output folder and filename, once the trainer
\* has persisted a FittedPipeline, load_pipeline on that folder returns and
\* the evaluator holds that pipeline.
C10_AsStated ==
    (last.op = "load_pipeline" /\ evaluator.model_dir = trainer.output_folder) =>
        \A k \in TrainerArtifact(fs[evaluator.model_dir].entries) :
            /\ last.status = "ok"
            /\ evaluator.pipeline = fs[evaluator.model_dir].entries[k].blob

\* load_pipeline on the trainer's folder, the trainer's artifact being named
\* *.joblib and listed before every other *.joblib entry
RoundTripLoad ==
    (last.op = "load_pipeline" /\ evaluator.model_dir = trainer.output_folder) =>
        LET entries == fs[evaluator.model_dir].entries
        IN \A k \in TrainerArtifact(entries) :
              (/\ trainer.filename \in ArtifactNames
               /\ \A j \in ArtifactEntries(entries) : k <= j)
              => /\ last.status = "ok"
                 /\ evaluator.pipeline = entries[k].blob
                 /\ evaluator.pipeline # PyNone

\* evaluate with a FittedPipeline in place and a two-class column reaches predict
RoundTripEvaluate ==
    (/\ last.op = "evaluate"
     /\ evaluator.pipeline.kind = "pipeline"
     /\ Cardinality(Classes(y)) = 2)
    => last.status = "ok" /\ InTrace("predict", last.trace)

\* a save_pipeline that returned left tpot.fitted_pipeline_ under the
\* trainer's filename, once, in place when the file was there before, and
\* touched nothing else
RoundTripSave ==
    (last'.op = "save_pipeline" /\ last'.status = "ok") =>
        LET before == fs[trainer.output_folder].entries
            after == fs'[trainer.output_folder].entries
        IN /\ Cardinality({i \in 1..Len(after) : after[i].name = trainer.filename}) = 1
           /\ \E i \in 1..Len(after) :
                 after[i] = Entry(trainer.filename, trainer.tpot.fitted_pipeline_)
           /\ HasEntry(fs[trainer.output_folder], trainer.filename) =>
                 [i \in 1..Len(after) |-> after[i].name]
                     = [i \in 1..Len(before) |-> before[i].name]
           /\ \A f \in Folders \ {trainer.output_folder} : fs'[f] = fs[f]

\* C10 amended: for a trainer whose filename ends with .joblib, once
\* save_pipeline has persisted the FittedPipeline of a completed train() and
\* that artifact is the first .joblib entry of the folder's listing,
\* load_pipeline on the same folder returns and the evaluator holds the
\* persisted FittedPipeline, with which evaluate reaches predict; a save
\* writes tpot.fitted_pipeline_, and a repeated save overwrites the artifact
\* in place.
C10_RoundTrip == [][RoundTripSave /\ RoundTripLoad' /\ RoundTripEvaluate']_vars

\* C10 witness: after a second save_pipeline overwrote the artifact of an
\* earlier fit, load_pipeline has loaded the trainer's current pipeline from
\* a folder that lists another artifact after it.
C10_Witness ==
    /\ last.op = "load_pipeline"
    /\ last.status = "ok"
    /\ evaluator.model_dir = trainer.output_folder
    /\ Fitted(trainer)
    /\ evaluator.pipeline = trainer.tpot.fitted_pipeline_
    /\ Cardinality(ArtifactEntries(fs[evaluator.model_dir].entries)) = 2
    /\ TrainerArtifact(fs[evaluator.model_dir].entries) # {}

=============================================================================
